---- MODULE Spec2Model ----
\* Model of crates/runtimes/src/outputs.rs: the ExecutionView that folds the
\* Jupyter messages of one execution into an ordered list of output blocks
\* and an execution status.
EXTENDS Integers, Sequences, FiniteSets, TLC

\* ---------------------------------------------------------------------
\* Bounds
\* ---------------------------------------------------------------------
\* Calls (push_message / set_status) made on one view under Spec.
MaxCalls == 3
\* Calls made on one view under SpecLines (long texts).
MaxLineCalls == 2

\* ---------------------------------------------------------------------
\* Text: a string is a sequence of characters.
\* ---------------------------------------------------------------------
NL == "\n"

Min(a, b) == IF a < b THEN a ELSE b

\* u8::MAX
U8Max == 255

\* `n as u8`: truncation to the low 8 bits.
AsU8(n) == n % (U8Max + 1)

\* u8::saturating_add
SaturatingAdd(a, b) == Min(U8Max, a + b)

\* str::lines().count(): lines are terminated by "\n"; a final line without
\* terminator counts, an empty remainder after the last "\n" does not.
LinesCount(s) ==
    Cardinality({i \in 1..Len(s) : s[i] = NL})
        + (IF Len(s) > 0 /\ s[Len(s)] # NL THEN 1 ELSE 0)

\* [String]::join(sep)
RECURSIVE Join(_, _)
Join(strs, sep) ==
    IF Len(strs) = 0 THEN <<>>
    ELSE IF Len(strs) = 1 THEN strs[1]
    ELSE strs[1] \o sep \o Join(Tail(strs), sep)

\* n copies of the one-line text "a\n"
Lines(n) == [i \in 1..(2 * n) |-> IF i % 2 = 1 THEN "a" ELSE NL]

\* ---------------------------------------------------------------------
\* Option
\* ---------------------------------------------------------------------
None == [some |-> FALSE]
Some(x) == [some |-> TRUE, val |-> x]

\* ---------------------------------------------------------------------
\* serde_json::Value: a string or something else (here a number)
\* ---------------------------------------------------------------------
Str(s) == [tag |-> "String", s |-> s]
Number(n) == [tag |-> "Number", n |-> n]

\* Mutant: a non-string value shown by its digits instead of dropped
as_str_unwrap_or_display(value) == IF value.tag = "String" THEN value.s ELSE <<"7">>

\* value.as_str().unwrap_or("")
as_str_unwrap_or_empty(value) == IF value.tag = "String" THEN value.s ELSE <<>>

\* ---------------------------------------------------------------------
\* TerminalOutput (crate::stdio): an accumulator of the chunks appended to it
\* ---------------------------------------------------------------------
TerminalOutput_new == <<>>

append_text(terminal, text) == Append(terminal, text)

TerminalOutput_from(text) == append_text(TerminalOutput_new, text)

RECURSIVE Flatten(_)
Flatten(chunks) == IF Len(chunks) = 0 THEN <<>> ELSE Head(chunks) \o Flatten(Tail(chunks))

\* Lines the accumulated text spans, before any clamping
TerminalLines(terminal) == LinesCount(Flatten(terminal))

\* LineHeight for TerminalOutput: a u8
TerminalOutput_num_lines(terminal) == Min(U8Max, TerminalLines(terminal))

\* ---------------------------------------------------------------------
\* OutputType
\* ---------------------------------------------------------------------
Plain(stdio) == [type |-> "Plain", stdio |-> stdio]
Media(mimetype, value) == [type |-> "Media", mimetype |-> mimetype, value |-> value]
Stream(stdio) == [type |-> "Stream", stdio |-> stdio]
ErrorOutput(ename, evalue, traceback) ==
    [type |-> "ErrorOutput", ename |-> ename, evalue |-> evalue, traceback |-> traceback]

\* Mutant: the priority list with the two entries swapped
PRIORITY_ORDER_plain_first == <<"Plain", "Markdown">>

\* Mutant: the priority list with a third, non-textual entry
PRIORITY_ORDER_with_html == <<"Markdown", "Plain", "Html">>

PRIORITY_ORDER == <<"Markdown", "Plain">>

\* runtimelib Media::richest: the first type of the priority order that the
\* mapping holds, with its value
RECURSIVE richest(_, _)
richest(data, priority_order) ==
    IF Len(priority_order) = 0 THEN None
    ELSE IF Head(priority_order) \in DOMAIN data
         THEN Some(<<Head(priority_order), data[Head(priority_order)]>>)
         ELSE richest(data, Tail(priority_order))

\* LineHeight for OutputType
OutputType_num_lines(output) ==
    CASE output.type = "Plain" -> TerminalOutput_num_lines(output.stdio)
      [] output.type = "Media" ->
            AsU8(LinesCount(as_str_unwrap_or_empty(output.value)))
      [] output.type = "Stream" -> TerminalOutput_num_lines(output.stdio)
      [] output.type = "ErrorOutput" ->
            LET h0 == 0
                h1 == SaturatingAdd(h0, AsU8(LinesCount(output.ename)))
                h2 == SaturatingAdd(h1, AsU8(LinesCount(output.evalue)))
                h3 == SaturatingAdd(h2, TerminalOutput_num_lines(output.traceback))
            IN  h3

\* ---------------------------------------------------------------------
\* ExecutionView
\* ---------------------------------------------------------------------
VARIABLES execution_id, outputs, status, notified, log

vars == <<execution_id, outputs, status, notified, log>>

ExecutionStatus == {"Unknown", "ConnectingToKernel", "Executing", "Finished"}

ExecutionIds == {"e1"}

\* ExecutionView::new
Init ==
    /\ execution_id \in ExecutionIds
    /\ outputs = <<>>
    /\ status = "Unknown"
    /\ notified = FALSE
    /\ log = <<>>

\* Block built from an ExecuteResult whose selection succeeded
ExecuteResultOutput(mimetype, value) ==
    CASE mimetype = "Plain" -> Plain(TerminalOutput_from(as_str_unwrap_or_empty(value)))
      [] mimetype = "Markdown" -> Plain(TerminalOutput_from(as_str_unwrap_or_empty(value)))
      [] OTHER -> Media(mimetype, value)

\* Mutant: DisplayData special-cased into Plain like ExecuteResult
DisplayDataOutput_as_result(mimetype, value) == ExecuteResultOutput(mimetype, value)

\* Block built from a DisplayData whose selection succeeded
DisplayDataOutput(mimetype, value) == Media(mimetype, value)

\* Mutant: the traceback lines appended one by one, not joined
ErrorOutputOutput_unjoined(result) ==
    ErrorOutput(result.ename, result.evalue, result.traceback)

\* Block built from an ErrorOutput message
ErrorOutputOutput(result) ==
    ErrorOutput(result.ename, result.evalue,
                append_text(TerminalOutput_new, Join(result.traceback, <<NL>>)))

\* Mutant: never merges, every chunk starts a new Stream block
apply_terminal_text_no_merge(outs, text) ==
    [outputs |-> outs, ret |-> Some(Stream(append_text(TerminalOutput_new, text)))]

\* Mutant: merges into the most recent Stream block wherever it is
apply_terminal_text_any_stream(outs, text) ==
    LET streams == {i \in 1..Len(outs) : outs[i].type = "Stream"} IN
    IF streams # {}
    THEN LET i == CHOOSE k \in streams : \A n \in streams : n <= k IN
         [outputs |-> [outs EXCEPT ![i].stdio = append_text(@, text)], ret |-> None]
    ELSE [outputs |-> outs,
          ret |-> Some(Stream(append_text(TerminalOutput_new, text)))]

\* Mutant: the last Stream block's buffer is replaced, not grown
apply_terminal_text_restart(outs, text) ==
    IF Len(outs) > 0 /\ outs[Len(outs)].type = "Stream"
    THEN [outputs |-> [outs EXCEPT ![Len(outs)].stdio = append_text(TerminalOutput_new, text)],
          ret |-> None]
    ELSE [outputs |-> outs,
          ret |-> Some(Stream(append_text(TerminalOutput_new, text)))]

\* Mutant: an empty chunk creates no block
apply_terminal_text_skip_empty(outs, text) ==
    IF Len(outs) > 0 /\ outs[Len(outs)].type = "Stream"
    THEN [outputs |-> [outs EXCEPT ![Len(outs)].stdio = append_text(@, text)],
          ret |-> None]
    ELSE IF Len(text) = 0
         THEN [outputs |-> outs, ret |-> None]
         ELSE [outputs |-> outs,
               ret |-> Some(Stream(append_text(TerminalOutput_new, text)))]

\* ExecutionView::apply_terminal_text: the outputs after the call and the
\* returned Option<OutputType>
apply_terminal_text(outs, text) ==
    IF Len(outs) > 0 /\ outs[Len(outs)].type = "Stream"
    THEN [outputs |-> [outs EXCEPT ![Len(outs)].stdio = append_text(@, text)],
          ret |-> None]
    ELSE [outputs |-> outs,
          ret |-> Some(Stream(append_text(TerminalOutput_new, text)))]

\* Mutant: the two arms of the match swapped
StatusOf_swapped(execution_state) ==
    IF execution_state = "Busy" THEN "Finished" ELSE "Executing"

\* Status set by a Status message
StatusOf(execution_state) ==
    IF execution_state = "Busy" THEN "Executing" ELSE "Finished"

\* Mutant: inserts at the front
PushOutput_front(outs, output) == <<output>> \o outs

\* self.outputs.push(output)
PushOutput(outs, output) == Append(outs, output)

\* Mutant: pushing a block also marks the execution as running
PushAndNotify_sets_executing(outs, output) ==
    /\ outputs' = PushOutput(outs, output)
    /\ notified' = TRUE
    /\ status' = "Executing"

\* The tail of push_message: push the block, then notify
PushAndNotify(outs, output) ==
    /\ outputs' = PushOutput(outs, output)
    /\ notified' = TRUE
    /\ status' = status

\* An early `return` that leaves status alone; outs is self.outputs by then
ReturnEarly(outs) ==
    /\ outputs' = outs
    /\ notified' = FALSE
    /\ status' = status

\* Mutant: a message of an unhandled kind shown as an empty Plain block
IgnoreMessage_shows(message) ==
    /\ outputs' = PushOutput(outputs, Plain(TerminalOutput_new))
    /\ notified' = TRUE
    /\ status' = status

\* The catch-all arm of push_message: `_msg => return`
IgnoreMessage(message) == ReturnEarly(outputs)

\* ExecutionView::push_message
push_message(message) ==
    /\ log' = Append(log, [op |-> "push_message", message |-> message])
    /\ execution_id' = execution_id
    /\ \/ /\ message.kind = "ExecuteResult"
          /\ LET sel == richest(message.data, PRIORITY_ORDER) IN
                IF sel = None
                THEN ReturnEarly(outputs)
                ELSE PushAndNotify(outputs, ExecuteResultOutput(sel.val[1], sel.val[2]))
       \/ /\ message.kind = "DisplayData"
          /\ LET sel == richest(message.data, PRIORITY_ORDER) IN
                IF sel = None
                THEN ReturnEarly(outputs)
                ELSE PushAndNotify(outputs, DisplayDataOutput(sel.val[1], sel.val[2]))
       \/ /\ message.kind = "StreamContent"
          /\ LET r == apply_terminal_text(outputs, message.text) IN
                IF r.ret = None
                THEN ReturnEarly(r.outputs)
                ELSE PushAndNotify(r.outputs, r.ret.val)
       \/ /\ message.kind = "ErrorOutput"
          /\ PushAndNotify(outputs, ErrorOutputOutput(message))
       \/ /\ message.kind = "Status"
          /\ status' = StatusOf(message.execution_state)
          /\ notified' = TRUE
          /\ outputs' = outputs
       \/ /\ message.kind \notin {"ExecuteResult", "DisplayData", "StreamContent",
                                  "ErrorOutput", "Status"}
          /\ IgnoreMessage(message)

\* Mutant: a finished execution keeps its status
set_status_guarded(new_status) ==
    /\ log' = Append(log, [op |-> "set_status", status |-> new_status])
    /\ status' = (IF status = "Finished" THEN status ELSE new_status)
    /\ notified' = TRUE
    /\ UNCHANGED <<execution_id, outputs>>

\* ExecutionView::set_status
set_status(new_status) ==
    /\ log' = Append(log, [op |-> "set_status", status |-> new_status])
    /\ status' = new_status
    /\ notified' = TRUE
    /\ UNCHANGED <<execution_id, outputs>>

\* TerminalOutput::render: the element showing the accumulated text
TerminalOutput_render(terminal) == [el |-> "terminal", text |-> Flatten(terminal)]

\* render_rich
render_rich(mimetype, value) ==
    CASE mimetype = "Plain" -> Some([el |-> "div", text |-> as_str_unwrap_or_empty(value)])
      [] mimetype = "Markdown" -> Some([el |-> "div", text |-> as_str_unwrap_or_empty(value)])
      [] OTHER -> None

\* render_error_output
render_error_output(ename, evalue, traceback) ==
    Some([el |-> "error", text |-> ename \o <<":", " ">> \o evalue,
          child |-> TerminalOutput_render(traceback)])

\* OutputType::render
OutputType_render(output) ==
    CASE output.type = "Plain" -> Some(TerminalOutput_render(output.stdio))
      [] output.type = "Media" -> render_rich(output.mimetype, output.value)
      [] output.type = "Stream" -> Some(TerminalOutput_render(output.stdio))
      [] output.type = "ErrorOutput" ->
            render_error_output(output.ename, output.evalue, output.traceback)

\* filter_map(|output| output.render(cx)): the elements of the blocks that
\* render to one, in order
RECURSIVE RenderedChildren(_)
RenderedChildren(outs) ==
    IF Len(outs) = 0 THEN <<>>
    ELSE LET el == OutputType_render(Head(outs)) IN
         (IF el = None THEN <<>> ELSE <<el.val>>) \o RenderedChildren(Tail(outs))

\* The fallback shown for a status while there is no output
StatusFallback(st) ==
    CASE st = "ConnectingToKernel" -> "Connecting to kernel..."
      [] st = "Executing" -> "Executing..."
      [] st = "Finished" -> "Check"
      [] st = "Unknown" -> "..."

\* Render for ExecutionView
ExecutionView_render(outs, st) ==
    IF Len(outs) = 0
    THEN [el |-> "fallback", text |-> StatusFallback(st)]
    ELSE [el |-> "outputs", children |-> RenderedChildren(outs)]

\* The fold of ExecutionView::num_lines from an accumulator
RECURSIVE FoldHeights(_, _)
FoldHeights(acc, outs) ==
    IF Len(outs) = 0 THEN acc
    ELSE FoldHeights(SaturatingAdd(acc, OutputType_num_lines(Head(outs))), Tail(outs))

\* The same fold with a wrapping addition
RECURSIVE FoldHeightsWrapping(_, _)
FoldHeightsWrapping(acc, outs) ==
    IF Len(outs) = 0 THEN acc
    ELSE FoldHeightsWrapping(AsU8(acc + OutputType_num_lines(Head(outs))), Tail(outs))

\* Mutant: the heights added with a wrapping addition
ExecutionView_num_lines_wrapping(outs) ==
    IF Len(outs) = 0 THEN 1 ELSE FoldHeightsWrapping(0, outs)

\* LineHeight for ExecutionView
ExecutionView_num_lines(outs) ==
    IF Len(outs) = 0 THEN 1 ELSE FoldHeights(0, outs)

\* ---------------------------------------------------------------------
\* Inputs
\* ---------------------------------------------------------------------
ExecuteResultMsg(data) == [kind |-> "ExecuteResult", data |-> data]
DisplayDataMsg(data) == [kind |-> "DisplayData", data |-> data]
StreamContentMsg(text) == [kind |-> "StreamContent", text |-> text]
ErrorOutputMsg(ename, evalue, traceback) ==
    [kind |-> "ErrorOutput", ename |-> ename, evalue |-> evalue, traceback |-> traceback]
StatusMsg(execution_state) == [kind |-> "Status", execution_state |-> execution_state]
\* a kind push_message has no arm for
ExecuteInputMsg == [kind |-> "ExecuteInput"]

MimeTypes == {"Markdown", "Plain", "Html"}

\* The value a kernel offers under each type in the small runs
ValueOf(mimetype) ==
    CASE mimetype = "Markdown" -> Str(<<"m">>)
      [] mimetype = "Plain" -> Str(<<"p">>)
      [] mimetype = "Html" -> Str(<<"h">>)

Datas ==
    {[t \in S |-> ValueOf(t)] :
        S \in {{}, {"Html"}, {"Plain"}, {"Markdown", "Plain"}, MimeTypes}}
        \cup {[t \in {"Plain"} |-> Number(7)],
              [t \in {"Markdown", "Plain"} |-> IF t = "Markdown" THEN Number(7) ELSE ValueOf(t)]}

Texts == {<<>>, <<"a">>, <<"b">>}

Messages ==
    {ExecuteResultMsg(d) : d \in Datas}
        \cup {DisplayDataMsg(d) : d \in Datas}
        \cup {StreamContentMsg(t) : t \in Texts}
        \cup {ErrorOutputMsg(<<"E">>, <<"v">>, tb) : tb \in {<<>>, <<<<"x">>, <<"y">>>>}}
        \cup {StatusMsg(s) : s \in {"Busy", "Idle"}}
        \cup {ExecuteInputMsg}

Next ==
    /\ Len(log) < MaxCalls
    /\ \/ \E message \in Messages : push_message(message)
       \/ \E new_status \in ExecutionStatus : set_status(new_status)

Spec == Init /\ [][Next]_vars

\* Long texts: line counts around the u8 boundary
LineTexts == {Lines(0), Lines(1), Lines(U8Max), Lines(U8Max + 1), Lines(U8Max + 2)}

LineMessages ==
    {ErrorOutputMsg(e, <<>>, <<>>) : e \in LineTexts}
        \cup {ErrorOutputMsg(<<>>, v, <<>>) : v \in LineTexts}
        \cup {ErrorOutputMsg(Lines(1), Lines(1), <<<<"x">>, <<"y">>>>)}
        \cup {DisplayDataMsg([t \in {"Plain"} |-> Str(v)]) : v \in LineTexts}
        \cup {ExecuteResultMsg([t \in {"Plain"} |-> Str(v)]) : v \in {Lines(1), Lines(U8Max + 1)}}
        \cup {DisplayDataMsg([t \in {"Html"} |-> Str(Lines(1))])}
        \cup {ExecuteResultMsg([t \in {"Html"} |-> Str(Lines(1))])}
        \cup {StreamContentMsg(t) : t \in {Lines(1), Lines(U8Max)}}
        \cup {StatusMsg(s) : s \in {"Busy", "Idle"}}
        \cup {ExecuteInputMsg}

NextLines ==
    /\ Len(log) < MaxLineCalls
    /\ \/ \E message \in LineMessages : push_message(message)
       \/ \E new_status \in {"ConnectingToKernel"} : set_status(new_status)

SpecLines == Init /\ [][NextLines]_vars

\* ---------------------------------------------------------------------
\* Properties
\* ---------------------------------------------------------------------
Last(seq) == seq[Len(seq)]

PushCall(message) == [op |-> "push_message", message |-> message]

\* The step is one call of push_message with a message of the given kind
PushedKind(kind) ==
    /\ Len(log') = Len(log) + 1
    /\ Last(log').op = "push_message"
    /\ Last(log').message.kind = kind

\* The argument of the call the step makes
Arg == Last(log').message

LastIsStream(outs) == Len(outs) > 0 /\ Last(outs).type = "Stream"

\* The prioritized types a mapping holds
Textual(data) == DOMAIN data \cap {"Markdown", "Plain"}

\* C1: when the last block is a Stream block that received B, pushing
\* StreamContent(t) keeps the number of blocks and makes the last block a
\* Stream block that received B followed by t; "a" then "b" on an empty view
\* gives exactly one Stream block that received "a" then "b".
C1_StreamMerges ==
    [][/\ (PushedKind("StreamContent") /\ LastIsStream(outputs)) =>
            /\ Len(outputs') = Len(outputs)
            /\ Last(outputs').type = "Stream"
            /\ Last(outputs').stdio = Last(outputs).stdio \o <<Arg.text>>
       /\ log' = <<PushCall(StreamContentMsg(<<"a">>)), PushCall(StreamContentMsg(<<"b">>))>> =>
            outputs' = <<Stream(<<<<"a">>, <<"b">>>>)>>]_vars

C1_Witness ==
    /\ log = <<PushCall(StreamContentMsg(<<"a">>)), PushCall(StreamContentMsg(<<"b">>))>>
    /\ Len(outputs) = 1
    /\ outputs[1].stdio = <<<<"a">>, <<"b">>>>

\* C2: when outputs is empty or its last block is not a Stream block, pushing
\* StreamContent(t) appends one Stream block holding only t and changes no
\* earlier block; StreamContent("a"), ErrorOutput, StreamContent("b") gives
\* three blocks Stream("a"), ErrorOutput, Stream("b").
C2_StreamStartsNewBlock ==
    [][/\ (PushedKind("StreamContent") /\ ~LastIsStream(outputs)) =>
            outputs' = outputs \o <<Stream(<<Arg.text>>)>>
       /\ (/\ Len(log') = 3
           /\ log'[1] = PushCall(StreamContentMsg(<<"a">>))
           /\ log'[2].op = "push_message"
           /\ log'[2].message.kind = "ErrorOutput"
           /\ log'[3] = PushCall(StreamContentMsg(<<"b">>))) =>
            /\ Len(outputs') = 3
            /\ outputs'[1] = Stream(<<<<"a">>>>)
            /\ outputs'[2].type = "ErrorOutput"
            /\ outputs'[3] = Stream(<<<<"b">>>>)]_vars

C2_Witness ==
    /\ Len(log) = 3
    /\ log[1] = PushCall(StreamContentMsg(<<"a">>))
    /\ log[2].op = "push_message"
    /\ log[2].message.kind = "ErrorOutput"
    /\ log[3] = PushCall(StreamContentMsg(<<"b">>))
    /\ Len(outputs) = 3
    /\ outputs[1].type = "Stream"
    /\ outputs[3].type = "Stream"

\* The calls that produce a block: ErrorOutput, StreamContent, and
\* ExecuteResult/DisplayData whose mapping holds a prioritized type
Produces(call) ==
    /\ call.op = "push_message"
    /\ \/ call.message.kind \in {"StreamContent", "ErrorOutput"}
       \/ /\ call.message.kind \in {"ExecuteResult", "DisplayData"}
          /\ Textual(call.message.data) # {}

IsStreamCall(call) == call.message.kind = "StreamContent"

\* Positions where a block begins: every non-stream message, and every stream
\* message not directly preceded by a stream message
RunStarts(p) ==
    {i \in 1..Len(p) : ~IsStreamCall(p[i]) \/ i = 1 \/ ~IsStreamCall(p[i - 1])}

\* Last position of the maximal run of stream messages that begins at i
RunEnd(p, i) ==
    CHOOSE j \in i..Len(p) :
        /\ \A k \in i..j : IsStreamCall(p[k])
        /\ j = Len(p) \/ ~IsStreamCall(p[j + 1])

\* The block one non-stream message stands for
BlockOfMessage(message) ==
    CASE message.kind = "ErrorOutput" -> ErrorOutputOutput(message)
      [] message.kind = "ExecuteResult" ->
            LET sel == richest(message.data, PRIORITY_ORDER).val
            IN  ExecuteResultOutput(sel[1], sel[2])
      [] message.kind = "DisplayData" ->
            LET sel == richest(message.data, PRIORITY_ORDER).val
            IN  DisplayDataOutput(sel[1], sel[2])

BlockOfRun(p, i) ==
    IF IsStreamCall(p[i])
    THEN Stream([k \in 1..(RunEnd(p, i) - i + 1) |-> p[i + k - 1].message.text])
    ELSE BlockOfMessage(p[i].message)

\* The blocks of the block-producing calls in arrival order, runs coalesced
Coalesced(l) ==
    LET p == SelectSeq(l, Produces)
        starts == RunStarts(p)
    IN  [n \in 1..Cardinality(starts) |->
            BlockOfRun(p, CHOOSE i \in starts :
                              Cardinality({j \in starts : j <= i}) = n)]

\* C3: outputs is the arrival-ordered sequence of the blocks of the
\* block-producing messages, each maximal uninterrupted run of StreamContent
\* messages coalesced into one Stream block.
C3_ArrivalOrder == outputs = Coalesced(log)

C3_Witness ==
    /\ Len(outputs) = 2
    /\ outputs[1].type = "Stream"
    /\ Len(outputs[1].stdio) = 2
    /\ outputs[2].type = "ErrorOutput"

\* What a reader of outputs can see: each block, a buffer by its text
Visible(outs) ==
    [i \in 1..Len(outs) |->
        IF outs[i].type \in {"Plain", "Stream"}
        THEN <<outs[i].type, Flatten(outs[i].stdio)>>
        ELSE <<outs[i]>>]

\* C4: every call that changes outputs (a block appended, or the text of the
\* last Stream block grown) or status notifies before returning.
C4_ChangeNotifies ==
    [][(Visible(outputs') # Visible(outputs) \/ status' # status) => notified']_vars

\* C5: for a mapping that holds Markdown or Plain, ExecuteResult appends a
\* Plain block seeded with the text of a prioritized entry, and DisplayData
\* appends a Media block carrying a prioritized type and its raw value, never
\* a Plain block.
C5_ResultVsDisplay ==
    [][/\ (PushedKind("ExecuteResult") /\ Textual(Arg.data) # {}) =>
            \E t \in Textual(Arg.data) :
                outputs' = outputs \o <<Plain(<<as_str_unwrap_or_empty(Arg.data[t])>>)>>
       /\ (PushedKind("DisplayData") /\ Textual(Arg.data) # {}) =>
            \E t \in Textual(Arg.data) :
                outputs' = outputs \o <<Media(t, Arg.data[t])>>
       /\ PushedKind("DisplayData") =>
            \A i \in 1..Len(outputs') :
                outputs'[i].type = "Plain" => (i <= Len(outputs) /\ outputs[i] = outputs'[i])]_vars

C5_Witness ==
    /\ Len(log) = 2
    /\ log[1].op = "push_message"
    /\ log[2].op = "push_message"
    /\ log[1].message.kind = "ExecuteResult"
    /\ log[2].message.kind = "DisplayData"
    /\ log[1].message.data = log[2].message.data
    /\ Len(outputs) = 2
    /\ outputs[1].type = "Plain"
    /\ outputs[2].type = "Media"

\* C6: an ExecuteResult or DisplayData whose mapping holds neither Markdown
\* nor Plain changes neither outputs nor status.
C6_UnrepresentableIgnored ==
    [][((PushedKind("ExecuteResult") \/ PushedKind("DisplayData")) /\ Textual(Arg.data) = {}) =>
            (outputs' = outputs /\ status' = status)]_vars

C6_Witness ==
    /\ Len(log) = 2
    /\ Len(outputs) = 1
    /\ log[2].op = "push_message"
    /\ log[2].message.kind \in {"ExecuteResult", "DisplayData"}
    /\ DOMAIN log[2].message.data = {"Html"}

\* The value a block was built from, as text
BuiltFrom(output) ==
    IF output.type = "Plain" THEN output.stdio[1] ELSE as_str_unwrap_or_empty(output.value)

\* C7: a mapping with both Markdown and Plain gives a block built from the
\* Markdown value, whatever else it holds; one with Plain and no Markdown
\* gives a block built from the Plain value.
C7_MarkdownFirst ==
    [][(PushedKind("ExecuteResult") \/ PushedKind("DisplayData")) =>
        /\ {"Markdown", "Plain"} \subseteq DOMAIN Arg.data =>
            /\ Len(outputs') = Len(outputs) + 1
            /\ BuiltFrom(Last(outputs')) = as_str_unwrap_or_empty(Arg.data["Markdown"])
            /\ Last(outputs').type = "Media" =>
                    /\ Last(outputs').mimetype = "Markdown"
                    /\ Last(outputs').value = Arg.data["Markdown"]
        /\ Textual(Arg.data) = {"Plain"} =>
            /\ Len(outputs') = Len(outputs) + 1
            /\ BuiltFrom(Last(outputs')) = as_str_unwrap_or_empty(Arg.data["Plain"])
            /\ Last(outputs').type = "Media" =>
                    /\ Last(outputs').mimetype = "Plain"
                    /\ Last(outputs').value = Arg.data["Plain"]]_vars

C7_Witness ==
    /\ Len(log) = 1
    /\ log[1].op = "push_message"
    /\ log[1].message.kind = "DisplayData"
    /\ DOMAIN log[1].message.data = {"Markdown", "Plain", "Html"}
    /\ outputs = <<Media("Markdown", Str(<<"m">>))>>

\* The calls that write status
WritesStatus(call) ==
    call.op = "set_status" \/ call.message.kind = "Status"

C9_ErrorLinesSaturate ==
    \A i \in 1..Len(outputs) :
        outputs[i].type = "ErrorOutput" =>
            OutputType_num_lines(outputs[i]) =
                Min(U8Max, LinesCount(outputs[i].ename) + LinesCount(outputs[i].evalue)
                               + TerminalLines(outputs[i].traceback))

IsPrefix(s, t) == Len(s) <= Len(t) /\ SubSeq(t, 1, Len(s)) = s

\* One block is the other with more lines added to the text of its Media
\* value, or to its ename or evalue
Extends(small, big) ==
    \/ /\ small.type = "Media"
       /\ big.type = "Media"
       /\ small.value.tag = "String"
       /\ big.value.tag = "String"
       /\ IsPrefix(small.value.s, big.value.s)
    \/ /\ small.type = "ErrorOutput"
       /\ big.type = "ErrorOutput"
       /\ small.traceback = big.traceback
       /\ IsPrefix(small.ename, big.ename)
       /\ IsPrefix(small.evalue, big.evalue)

\* C10: num_lines never decreases when the text of a block is extended with
\* more lines.
C10_LinesMonotonic ==
    \A i, j \in 1..Len(outputs) :
        Extends(outputs[i], outputs[j]) =>
            OutputType_num_lines(outputs[i]) <= OutputType_num_lines(outputs[j])

\* The plain sum of the heights the blocks report
RECURSIVE SumHeights(_)
SumHeights(outs) ==
    IF Len(outs) = 0 THEN 0 ELSE OutputType_num_lines(Head(outs)) + SumHeights(Tail(outs))

\* C11: the view reports 1 line when outputs is empty, whatever the status,
\* and otherwise min(255, sum of the heights its blocks report).
C11_ViewLines ==
    ExecutionView_num_lines(outputs) =
        (IF outputs = <<>> THEN 1 ELSE Min(U8Max, SumHeights(outputs)))

C11_Witness ==
    /\ Len(outputs) >= 2
    /\ SumHeights(outputs) > U8Max
    /\ ExecutionView_num_lines(outputs) = U8Max

\* One call was made
Called == Len(log') = Len(log) + 1

\* C12: outputs is append-only: a call keeps its length or adds one block,
\* never changes the variant of a block, never changes a block other than
\* the last, and changes the last only by growing its Stream buffer.
C12_AppendOnly ==
    [][Called =>
        /\ Len(outputs') \in {Len(outputs), Len(outputs) + 1}
        /\ \A i \in 1..Len(outputs) : outputs'[i].type = outputs[i].type
        /\ \A i \in 1..(Len(outputs) - 1) : outputs'[i] = outputs[i]
        /\ Len(outputs) > 0 =>
            \/ outputs'[Len(outputs)] = Last(outputs)
            \/ /\ Len(outputs') = Len(outputs)
               /\ Last(outputs).type = "Stream"
               /\ Len(Last(outputs').stdio) = Len(Last(outputs).stdio) + 1
               /\ IsPrefix(Last(outputs).stdio, Last(outputs').stdio)]_vars

C12_Witness ==
    /\ Len(log) = 3
    /\ log[1].op = "push_message"
    /\ log[1].message.kind = "ErrorOutput"
    /\ Len(outputs) = 2
    /\ outputs[2] = Stream(<<<<"a">>, <<"b">>>>)

\* C13: an ErrorOutput message always appends exactly one ErrorOutput block
\* with its ename, its evalue and a fresh buffer that received the traceback
\* lines joined by newline, whatever the last block is.
C13_ErrorAppends ==
    [][PushedKind("ErrorOutput") =>
        outputs' = outputs \o
            <<[type |-> "ErrorOutput", ename |-> Arg.ename, evalue |-> Arg.evalue,
               traceback |-> <<Join(Arg.traceback, <<NL>>)>>]>>]_vars

C13_Witness ==
    /\ Len(log) = 2
    /\ log[1].op = "push_message"
    /\ log[2].op = "push_message"
    /\ log[1].message.kind = "ErrorOutput"
    /\ log[2].message.kind = "ErrorOutput"
    /\ Len(outputs) = 2
    /\ outputs[1].type = "ErrorOutput"
    /\ outputs[2].traceback = <<<<"x", NL, "y">>>>

\* C14: ExecuteResult, DisplayData, StreamContent and ErrorOutput messages
\* leave status unchanged, and no call changes execution_id.
C14_StatusFrame ==
    [][Called =>
        /\ execution_id' = execution_id
        /\ (\E k \in {"ExecuteResult", "DisplayData", "StreamContent", "ErrorOutput"} :
                PushedKind(k)) => status' = status]_vars

C14_Witness ==
    /\ Len(log) = 3
    /\ log[1] = PushCall(StatusMsg("Busy"))
    /\ log[2] = PushCall(StreamContentMsg(<<"a">>))
    /\ log[3] = PushCall(StreamContentMsg(<<"b">>))
    /\ status = "Executing"
    /\ Len(outputs) = 1

\* C15: a message of any other kind changes neither outputs nor status.
C15_OtherKindIgnored ==
    [][(/\ Called
        /\ Last(log').op = "push_message"
        /\ Last(log').message.kind \notin
                {"ExecuteResult", "DisplayData", "StreamContent", "ErrorOutput", "Status"}) =>
            (outputs' = outputs /\ status' = status)]_vars

C15_Witness ==
    /\ Len(log) = 3
    /\ log[3] = PushCall(ExecuteInputMsg)
    /\ Len(outputs) = 1
    /\ status = "Executing"

\* C16: set_status(s) sets status to s from any status and leaves outputs
\* unchanged.
C16_SetStatus ==
    [][(Called /\ Last(log').op = "set_status") =>
            (status' = Last(log').status /\ outputs' = outputs)]_vars

C16_Witness ==
    /\ Len(log) = 3
    /\ log[2] = PushCall(StatusMsg("Idle"))
    /\ log[3] = [op |-> "set_status", status |-> "Unknown"]
    /\ status = "Unknown"
    /\ Len(outputs) = 1

\* The entry the priority order selects from a mapping that holds one
Selected(data) == IF "Markdown" \in DOMAIN data THEN data["Markdown"] ELSE data["Plain"]

\* C17: an ExecuteResult whose selected entry is not a string still appends
\* exactly one Plain block, seeded with the empty string.
C17_NonStringIsEmpty ==
    [][(/\ PushedKind("ExecuteResult")
        /\ Textual(Arg.data) # {}
        /\ Selected(Arg.data).tag # "String") =>
            outputs' = outputs \o <<[type |-> "Plain", stdio |-> <<<<>>>>]>>]_vars

C17_Witness ==
    /\ Len(log) = 1
    /\ log[1].op = "push_message"
    /\ log[1].message.kind = "ExecuteResult"
    /\ DOMAIN log[1].message.data = {"Markdown", "Plain"}
    /\ log[1].message.data["Markdown"].tag = "Number"
    /\ outputs = <<[type |-> "Plain", stdio |-> <<<<>>>>]>>

\* C18: outputs never holds two adjacent Stream blocks.
C18_NoAdjacentStreams ==
    \A i \in 1..(Len(outputs) - 1) :
        ~(outputs[i].type = "Stream" /\ outputs[i + 1].type = "Stream")

C18_Witness ==
    /\ Len(log) = 3
    /\ \A i \in 1..3 : log[i].op = "push_message" /\ log[i].message.kind = "StreamContent"
    /\ Len(outputs) = 1
    /\ Len(outputs[1].stdio) = 3

\* C19: every Media block has type Markdown or Plain and comes from a
\* DisplayData message; ExecuteResult never appends a Media block; every
\* block renders to an element, so rendering skips none.
C19_MediaRenders ==
    [][Called =>
        /\ \A i \in 1..Len(outputs') :
            outputs'[i].type = "Media" =>
                /\ outputs'[i].mimetype \in {"Markdown", "Plain"}
                /\ render_rich(outputs'[i].mimetype, outputs'[i].value) # None
        /\ Len(RenderedChildren(outputs')) = Len(outputs')
        /\ PushedKind("ExecuteResult") =>
                (Len(outputs') = Len(outputs) \/ Last(outputs').type # "Media")
        /\ (Len(outputs') > Len(outputs) /\ Last(outputs').type = "Media") =>
                PushedKind("DisplayData")]_vars

C19_Witness ==
    /\ Len(log) = 2
    /\ log[1].op = "push_message"
    /\ log[2].op = "push_message"
    /\ log[1].message.kind = "ExecuteResult"
    /\ log[2].message.kind = "DisplayData"
    /\ DOMAIN log[2].message.data = MimeTypes
    /\ Len(outputs) = 2
    /\ outputs[2].type = "Media"
    /\ Len(ExecutionView_render(outputs, status).children) = 2

ShowsFallback(outs, st) == ExecutionView_render(outs, st).el = "fallback"

\* C20: the status fallback is shown exactly when outputs is empty; once a
\* block is there, also a Stream block made from an empty chunk, no call
\* makes outputs empty again.
C20_FallbackOnlyWhenEmpty ==
    [][Called =>
        /\ ShowsFallback(outputs, status) <=> outputs = <<>>
        /\ ShowsFallback(outputs', status') <=> outputs' = <<>>
        /\ outputs # <<>> => outputs' # <<>>
        /\ (PushedKind("StreamContent") \/ PushedKind("ErrorOutput")) => outputs' # <<>>]_vars

C20_Witness ==
    /\ Len(log) = 3
    /\ log[1] = PushCall(StreamContentMsg(<<>>))
    /\ log[2] = PushCall(StatusMsg("Idle"))
    /\ log[3] = [op |-> "set_status", status |-> "Unknown"]
    /\ outputs = <<Stream(<<<<>>>>)>>
    /\ ~ShowsFallback(outputs, status)

====
